---- MODULE Spec2Model ----
(***************************************************************************)
(* Model of the container deployment pipeline of cluster/calcium/create.go *)
(* (CreateContainer, doCreateContainer, doCreateContainerOnNode,           *)
(* doCreateAndStartContainer).                                             *)
(*                                                                         *)
(* One request is followed from the call of CreateContainer to the close   *)
(* of the result channel.  The allocator, the engine, the store and the    *)
(* node lock are external: every call to them succeeds or fails by a       *)
(* nondeterministic choice.  The caller receives from the result channel   *)
(* and may cancel after the first message.                                 *)
(*                                                                         *)
(* Three functions are specified on their own, each with its inputs drawn  *)
(* by its initial predicate: the labels of doMakeContainerOptions          *)
(* (LabelSpec), NewVolumeBinding of types/volume.go (BindingSpec) and      *)
(* VolumeBindings.Merge, ToStringSlice and IsEqual (VolumeSpec).  Strings  *)
(* of types/volume.go are sequences of bytes.                              *)
(***************************************************************************)
EXTENDS Integers, Sequences, FiniteSets, TLC

\* ---------------------------------------------------------------- bounds
\* largest replica count of a request
MaxCount == 2
\* largest number of NodeInfos of an allocation plan
MaxNodes == 2
\* largest number of failing external calls during one request
MaxFaults == 2
\* largest number of bindings of the two operands of a call together
MaxVolumes == 3

\* ------------------------------------------------------------- constants
Nil == "nil"
\* the empty container ID ""
EmptyID == 0
\* a processing-counter row that is not in the store
Absent == -1
\* the sequence number of a replica doMakeContainerOptions was not called for
NoSeq == -1

CountValues == -1 .. MaxCount
MemoryValues == {-1, 0, 1}
CPUQuotaValues == {-1, 0, 1}
\* len(opts.Data)
DataValues == {0, 1}
StorageValues == {0, 1}
PodnameValues == {"pod"}
\* the zero value of a string field of a message
EmptyString == ""
\* the name of no node: the Nodename of a message that was never given one
EmptyNodename == 0
\* the zero value of a CPUMap or VolumePlan field of a message
EmptyPlan == <<>>

\* the requests: every Count with every sign of Memory and CPUQuota; the
\* requests with a positive Memory or CPUQuota carry data and ask for storage,
\* the others do not
Requests ==
  { o \in [Count : CountValues, Memory : MemoryValues,
            CPUQuota : CPUQuotaValues, Data : DataValues,
            Storage : StorageValues, Podname : PodnameValues] :
      /\ (o.Data = 1) = (o.Memory > 0 \/ o.CPUQuota > 0)
      /\ o.Storage = o.Data
      /\ (o.Memory > 0) = (o.CPUQuota > 0) \/ o.Memory < 0 \/ o.CPUQuota < 0 }

VARIABLES
  opts,        \* the DeployOptions of the request
  mainPc,      \* "call" before CreateContainer, "returned" after
  retErr,      \* error returned by CreateContainer
  retCh,       \* channel returned by CreateContainer: "nil" or "ch"
  allocCalls,  \* number of calls of doAllocResource
  nodesInfo,   \* the plan: sequence of NodeInfo.Deploy
  driverPc,    \* the goroutine of line 50: "none", "start", "spawn", "wait", "done"
  index,       \* the driver's running index (line 54)
  spawned,     \* number of NodeInfos the driver loop has gone through
  wg,          \* the wait group counter
  closeCount,  \* number of close(ch)
  panicked,    \* a send on the closed channel happened
  gpc,         \* per node goroutine: its position
  gindex,      \* per node goroutine: its index argument
  li,          \* per node: i of the loop of doCreateContainerOnNode
  si,          \* per node: i of the send loop (line 63)
  ms,          \* per node: the messages ms of doCreateContainerOnNode
  rep,         \* per node, per replica: outcomes of the external calls and call counts
  processing,  \* store: per node the processing-counter row (Absent or a value)
  procLog,     \* per node: the UpdateProcessing calls in order, value and result
  deleteLog,   \* per node: the results of the DeleteProcessing calls, in order
  reserved,    \* store: per node number of reservations held
  engineCts,   \* engine: IDs of the containers present on the nodes
  storeCts,    \* store: IDs of the persisted container records
  received,    \* number of messages the caller has received
  sendLog,     \* per node: the messages sent on the result channel, in order
  cancelled,   \* the caller has cancelled and receives no more
  faults,      \* number of failed external calls so far
  pureCall,    \* the function checked on its own that was called, NotCalled before
  labelOpts,   \* doMakeContainerOptions: the labels, publish and health check of opts
  configLabels, \* doMakeContainerOptions: config.Labels
  volume,      \* NewVolumeBinding: the argument
  newVB,       \* NewVolumeBinding: the binding and the error returned
  vbs,         \* Merge: the receiver
  vbs2,        \* Merge: the argument
  merged,      \* Merge: the soft and hard volumes returned
  operands,      \* IsEqual, ToStringSlice: the receiver and the argument as they were at the call
  returned     \* IsEqual, ToStringSlice: what the call returned

vars == <<opts, mainPc, retErr, retCh, allocCalls, nodesInfo, driverPc, index,
          spawned, wg, closeCount, panicked, gpc, gindex, li, si, ms, rep,
          processing, procLog, deleteLog, reserved, engineCts, storeCts,
          received, sendLog, cancelled, faults,
          pureCall, labelOpts, configLabels, volume, newVB, vbs, vbs2, merged,
          operands, returned>>

mainVars == <<opts, mainPc, retErr, retCh, allocCalls, nodesInfo>>
storeVars == <<processing, procLog, deleteLog, reserved, engineCts, storeCts>>
\* the variables of the functions that are checked on their own
labelVars == <<labelOpts, configLabels>>
volumeVars == <<volume, newVB, vbs, vbs2, merged, operands, returned>>
pureVars == <<pureCall, labelVars, volumeVars>>

Nodes == 1 .. Len(nodesInfo)

RECURSIVE SumSeq(_)
SumSeq(s) == IF s = <<>> THEN 0 ELSE Head(s) + SumSeq(Tail(s))

\* ------------------------------------------------------ utils.Txn (4.2)
\* then runs when the condition returned no error
TxnThenRuns(condErr) == condErr = Nil
\* the error of the transaction: the first non-nil error
TxnErr(condErr, thenErr) == IF condErr # Nil THEN condErr ELSE thenErr
\* rollback runs when the transaction failed and a rollback is given
TxnRollbackRuns(condErr, thenErr, hasRollback) ==
  hasRollback /\ TxnErr(condErr, thenErr) # Nil

\* ------------------------------------------------------ CreateContainer
\* opts.Normalize fills defaults; Count, Memory and CPUQuota are kept
Normalize(o) == o

\* Validate with the check of Memory before the check of Count
Validate_memoryFirst(o) ==
  IF o.Memory < 0 THEN "ErrBadMemory"
  ELSE IF o.Count <= 0 THEN "ErrBadCount"
  ELSE IF o.CPUQuota < 0 THEN "ErrBadCPU"
  ELSE Nil

\* the checks of CreateContainer, in the order of the code
Validate(o) ==
  IF o.Count <= 0 THEN "ErrBadCount"
  ELSE IF o.Memory < 0 THEN "ErrBadMemory"
  ELSE IF o.CPUQuota < 0 THEN "ErrBadCPU"
  ELSE Nil

\* the plans the allocator may return: the deploy counts, each >= 0, sum to
\* Count.  The per node goroutines differ by their NodeInfo only, so of the
\* plans that are permutations of each other the one in non-decreasing order
\* of Deploy is taken.
AllocPlans(o) ==
  { p \in UNION { [1 .. k -> 0 .. o.Count] : k \in 1 .. MaxNodes } :
      /\ SumSeq(p) = o.Count
      /\ \A n \in 1 .. Len(p) - 1 : p[n] <= p[n + 1] }

\* nothing of the pipeline has run
PipelineIdle ==
  /\ mainPc = "call"
  /\ retErr = Nil
  /\ retCh = "nil"
  /\ allocCalls = 0
  /\ nodesInfo = <<>>
  /\ driverPc = "none"
  /\ index = 0
  /\ spawned = 0
  /\ wg = 0
  /\ closeCount = 0
  /\ panicked = FALSE
  /\ gpc = <<>>
  /\ gindex = <<>>
  /\ li = <<>>
  /\ si = <<>>
  /\ ms = <<>>
  /\ rep = <<>>
  /\ processing = <<>>
  /\ procLog = <<>>
  /\ deleteLog = <<>>
  /\ reserved = <<>>
  /\ engineCts = {}
  /\ storeCts = {}
  /\ received = 0
  /\ sendLog = <<>>
  /\ cancelled = FALSE
  /\ faults = 0

NotCalled == "not called"
\* a Go map with no entry
EmptyMap == <<>>
\* the options of a request without labels, published ports and health check
NoLabelOpts == [Labels |-> EmptyMap, Publish |-> <<>>, HealthCheck |-> "none"]

\* a VolumeBinding with the zero value in every field
NoBinding == [Source |-> <<>>, Destination |-> <<>>, Flags |-> <<>>, SizeInBytes |-> 0]

LabelIdle ==
  /\ labelOpts = NoLabelOpts
  /\ configLabels = EmptyMap

VolumeIdle ==
  /\ volume = <<>>
  /\ newVB = [vb |-> NoBinding, err |-> Nil]
  /\ vbs = <<>>
  /\ vbs2 = <<>>
  /\ merged = [soft |-> <<>>, hard |-> <<>>]
  /\ operands = <<vbs, vbs2>>
  /\ returned = <<>>

\* the functions that are checked on their own are not called
PureIdle ==
  /\ pureCall = NotCalled
  /\ LabelIdle
  /\ VolumeIdle

Init ==
  /\ opts \in Requests
  /\ PipelineIdle
  /\ PureIdle

\* CreateContainer returns a validation error: nothing else happens
CreateContainerInvalid ==
  /\ mainPc = "call"
  /\ Validate(Normalize(opts)) # Nil
  /\ mainPc' = "returned"
  /\ retErr' = Validate(Normalize(opts))
  /\ retCh' = "nil"
  /\ UNCHANGED <<opts, allocCalls, nodesInfo, driverPc, index, spawned, wg,
                 closeCount, panicked, gpc, gindex, li, si, ms, rep,
                 received, sendLog, cancelled, faults>>
  /\ UNCHANGED storeVars
  /\ UNCHANGED pureVars

\* doCreateContainer, the allocator fails: the channel made at line 40 is returned
CreateContainerAllocFails ==
  /\ mainPc = "call"
  /\ Validate(Normalize(opts)) = Nil
  /\ mainPc' = "returned"
  /\ allocCalls' = allocCalls + 1
  /\ retErr' = "ErrAlloc"
  /\ retCh' = "ch"
  /\ UNCHANGED <<opts, nodesInfo, driverPc, index, spawned, wg,
                 closeCount, panicked, gpc, gindex, li, si, ms, rep,
                 received, sendLog, cancelled, faults>>
  /\ UNCHANGED storeVars
  /\ UNCHANGED pureVars

\* doCreateContainer, the allocator returns a plan: the driver goroutine is started
CreateContainerAllocated ==
  /\ mainPc = "call"
  /\ Validate(Normalize(opts)) = Nil
  /\ \E plan \in AllocPlans(opts) :
       /\ nodesInfo' = plan
       /\ gpc' = [n \in DOMAIN plan |-> "idle"]
       /\ gindex' = [n \in DOMAIN plan |-> 0]
       /\ li' = [n \in DOMAIN plan |-> 0]
       /\ si' = [n \in DOMAIN plan |-> 0]
       /\ ms' = [n \in DOMAIN plan |-> <<>>]
       /\ rep' = [n \in DOMAIN plan |-> <<>>]
       /\ processing' = [n \in DOMAIN plan |-> plan[n]]
       /\ procLog' = [n \in DOMAIN plan |-> <<>>]
       /\ deleteLog' = [n \in DOMAIN plan |-> <<>>]
       /\ reserved' = [n \in DOMAIN plan |-> plan[n]]
       /\ sendLog' = [n \in DOMAIN plan |-> <<>>]
  /\ mainPc' = "returned"
  /\ allocCalls' = allocCalls + 1
  /\ retErr' = Nil
  /\ retCh' = "ch"
  /\ driverPc' = "start"
  /\ UNCHANGED <<opts, index, spawned, wg, closeCount, panicked,
                 engineCts, storeCts, received, cancelled, faults>>
  /\ UNCHANGED pureVars

\* ------------------------------------------- the goroutine of line 50
\* WgAdd of a single wg.Add(1) for all the goroutines
WgAdd_one == IF Len(nodesInfo) > 0 THEN 1 ELSE 0

\* the argument of wg.Add (line 53)
WgAdd == Len(nodesInfo)

\* wg.Add(len(nodesInfo)); index := 0
DriverStart ==
  /\ driverPc = "start"
  /\ wg' = wg + WgAdd
  /\ index' = 0
  /\ spawned' = 0
  /\ driverPc' = IF Len(nodesInfo) > 0 THEN "spawn" ELSE "wait"
  /\ UNCHANGED <<closeCount, panicked, gpc, gindex, li, si, ms, rep,
                 received, sendLog, cancelled, faults>>
  /\ UNCHANGED mainVars
  /\ UNCHANGED pureVars
  /\ UNCHANGED storeVars

\* what is recorded of a replica: the phase that failed ("unset" before the
\* launch, "none" for no failure), the sequence number given to
\* doMakeContainerOptions, the ID the engine gave, the number of calls
\* of AddContainer, of remove and of UpdateNodeResource, whether the remove
\* failed, what withNodeLocked returned ("none" when it was not called)
NoRep ==
  [fail |-> "unset", seq |-> NoSeq, created |-> EmptyID, addCalls |-> 0, removeCalls |-> 0,
   removeFailed |-> FALSE, incrCalls |-> 0, lock |-> "none"]

\* a message that is not set yet: the nil of make (line 103)
NoMsg ==
  [set |-> FALSE, Error |-> Nil, ContainerID |-> EmptyID,
   Podname |-> EmptyString, Nodename |-> EmptyNodename, CPU |-> EmptyPlan,
   Quota |-> 0, Memory |-> 0, Storage |-> 0, VolumePlan |-> EmptyPlan]

\* HasNextMessage of a loop that ends at the first message with an error
HasNextMessage_stopAtError(msgs, i) ==
  i < Len(msgs) /\ (i = 0 \/ msgs[i].Error = Nil)

\* the range loop of line 63 has a message i left
HasNextMessage(msgs, i) == i < Len(msgs)

\* MessageAt of a loop that goes through the messages from the last to the first
MessageAt_reversed(msgs, i) == msgs[Len(msgs) - i]

\* the message m of the range loop of line 63 at index i
MessageAt(msgs, i) == msgs[i + 1]

\* SendLoopPc of a goroutine that ends after its last send without wg.Done()
SendLoopPc_noDone(msgs, i) == IF HasNextMessage(msgs, i) THEN "send" ELSE "done"

\* where a node goroutine goes when the range loop of line 63 is at i
SendLoopPc(msgs, i) == IF HasNextMessage(msgs, i) THEN "send" ELSE "delete"

\* where a node goroutine goes once replica i-1 is finished: the loop of
\* line 104, and after it the range loop of line 63 over the returned ms
LaunchLoopPc(n, i, msgs) ==
  IF i < nodesInfo[n] THEN "prepare" ELSE SendLoopPc(msgs, 0)

\* NextIndex of an index that counts the NodeInfos
NextIndex_perNode(i, deploy) == i + 1

\* index += nodeInfo.Deploy (line 94)
NextIndex(i, deploy) == i + deploy

\* one iteration of the loop of line 57: go func(nodeInfo, index); index += Deploy
DriverSpawn ==
  /\ driverPc = "spawn"
  /\ LET n == spawned + 1 IN
       /\ ms' = [ms EXCEPT ![n] = [i \in 1 .. nodesInfo[n] |-> NoMsg]]
       /\ rep' = [rep EXCEPT ![n] = [i \in 1 .. nodesInfo[n] |-> NoRep]]
       /\ gpc' = [gpc EXCEPT ![n] = LaunchLoopPc(n, 0, ms'[n])]
       /\ gindex' = [gindex EXCEPT ![n] = index]
       /\ index' = NextIndex(index, nodesInfo[n])
       /\ spawned' = n
       /\ driverPc' = IF n < Len(nodesInfo) THEN "spawn" ELSE "wait"
  /\ UNCHANGED <<wg, closeCount, panicked, li, si,
                 received, sendLog, cancelled, faults>>
  /\ UNCHANGED mainVars
  /\ UNCHANGED pureVars
  /\ UNCHANGED storeVars

\* WaitDone without the wait
WaitDone_noWait == TRUE

\* wg.Wait() returns when the counter is zero
WaitDone == wg = 0

\* wg.Wait() returned, the deferred close(ch) runs
DriverClose ==
  /\ driverPc = "wait"
  /\ WaitDone
  /\ closeCount' = closeCount + 1
  /\ driverPc' = "done"
  /\ UNCHANGED <<index, spawned, wg, panicked, gpc, gindex, li, si, ms, rep,
                 received, sendLog, cancelled, faults>>
  /\ UNCHANGED mainVars
  /\ UNCHANGED pureVars
  /\ UNCHANGED storeVars

\* --------------------------------------- doCreateAndStartContainer
\* the ID the engine gives to the container of sequence number no
EngineID(no) == no + 1

\* container.ID after the condition function (lines 213-217)
ContainerIDAfterCond(no, env) ==
  IF env.fail = "create" THEN EmptyID ELSE EngineID(no)

\* the error the condition function (lines 205-264) returns
CondErr(env) ==
  CASE env.fail = "create" -> "ErrCreate"
    [] env.fail = "inject" -> "ErrInject"
    [] env.fail = "start" -> "ErrStart"
    [] env.fail = "inspect" -> "ErrInspect"
    [] OTHER -> Nil

\* the variable err of line 200 after the condition function: the errors of
\* GetReader and doSendFileToContainer go to the err declared at line 222
\* inside the loop, so err keeps the nil of VirtualizationCreate
ErrVarAfterCond(env) ==
  CASE env.fail = "create" -> "ErrCreate"
    [] env.fail = "inject" -> Nil
    [] env.fail = "start" -> "ErrStart"
    [] env.fail = "inspect" -> "ErrInspect"
    [] OTHER -> Nil

\* ThenErr of a then that drops the error of store.AddContainer
ThenErr_dropped(env) == Nil

\* the error of store.AddContainer (line 267), assigned to err and returned
ThenErr(env) == IF env.fail = "persist" THEN "ErrPersist" ELSE Nil

\* createContainerMessage as it is made at lines 190-199
NewMessage(nodename, o, cpu, volumePlan) ==
  [set |-> TRUE, Error |-> Nil, ContainerID |-> EmptyID,
   Podname |-> o.Podname, Nodename |-> nodename, CPU |-> cpu,
   Quota |-> o.CPUQuota, Memory |-> o.Memory, Storage |-> o.Storage,
   VolumePlan |-> volumePlan]

\* the whole transaction of lines 203-286 for sequence number no
DoCreateAndStart(no, nodename, o, cpu, volumePlan, env) ==
  LET cid == ContainerIDAfterCond(no, env)
      condErr == CondErr(env)
      thenRuns == TxnThenRuns(condErr)
      thenErr == IF thenRuns THEN ThenErr(env) ELSE Nil
      errVar == IF thenRuns THEN thenErr ELSE ErrVarAfterCond(env)
      \* line 271, reached when AddContainer succeeded
      idAfterThen == IF thenRuns /\ thenErr = Nil THEN cid ELSE EmptyID
      rollbackRuns == TxnRollbackRuns(condErr, thenErr, TRUE)
      \* line 276
      removeCalled == rollbackRuns /\ errVar # Nil /\ cid # EmptyID
      removed == removeCalled /\ env.removeOK
  IN [ msg |-> [NewMessage(nodename, o, cpu, volumePlan) EXCEPT
                  !.Error = IF rollbackRuns THEN errVar ELSE Nil,
                  !.ContainerID = IF removed THEN EmptyID ELSE idAfterThen],
       \* config.Seq and ERU_CONTAINER_NO (lines 206, 293, 333)
       seq |-> no,
       created |-> cid,
       addCalls |-> IF thenRuns THEN 1 ELSE 0,
       persisted |-> thenRuns /\ thenErr = Nil,
       removeCalls |-> IF removeCalled THEN 1 ELSE 0,
       removed |-> removed ]

\* ------------------------------------------- doCreateContainerOnNode
\* a call may fail only while the budget of failing calls lasts
MayFail(k) == faults + k <= MaxFaults

\* what the node lookup and image pull, the engine, the store and the node
\* lock answer to the calls of one replica: the phase that fails (or "none"),
\* whether a forced remove succeeds, what withNodeLocked returns; data is
\* copied only when the request has data, a remove comes only after a create,
\* the lock is taken only after a failure
ReplicaEnvs(o) ==
  { env \in [fail : {"none", "prepare", "create", "inject", "start", "inspect", "persist"},
             removeOK : BOOLEAN,
             lock : {"ok", "lockfail", "storefail"}] :
      /\ env.fail = "inject" => o.Data > 0
      /\ ~env.removeOK => env.fail \in {"inject", "start", "inspect", "persist"}
      /\ env.lock # "ok" => env.fail # "none" }

\* the name of the node of NodeInfo n
NodeName(n) == n
\* nodeInfo.CPUPlan[i] of NodeInfo n (lines 106-109)
CPUPlan(n, i) == <<"cpu", n, i>>
\* nodeInfo.VolumePlans[i] of NodeInfo n (lines 110-113)
VolumePlans(n, i) == <<"volume", n, i>>

\* KeepsReservation of a rollback that returns before it releases the
\* reservation whenever the message has an error
KeepsReservation_onError(msg) == msg.ContainerID # EmptyID \/ msg.Error # Nil

\* the rollback of lines 134-146 returns at line 138, before the node lock,
\* when the message has a container ID
KeepsReservation(msg) == msg.ContainerID # EmptyID

\* the message of the condition of the transaction of line 116 (lines 119-127):
\* a literal with Error, CPU and VolumePlan, the other fields are zero
PrepareMsg(err, cpu, volumePlan) ==
  [NoMsg EXCEPT !.set = TRUE, !.Error = err, !.CPU = cpu, !.VolumePlan = volumePlan]

\* one iteration of the loop of line 104: the transaction of lines 116-148
\* for replica i (from 0) of node n whose goroutine got index base
LaunchOne(n, o, base, i, env) ==
  LET prepErr == IF env.fail = "prepare" THEN "ErrPrepare" ELSE Nil
      cpu == CPUPlan(n, i)
      volumePlan == VolumePlans(n, i)
      thenRuns == TxnThenRuns(prepErr)
      r == DoCreateAndStart(base + i, NodeName(n), o, cpu, volumePlan, env)
      msg == IF thenRuns THEN r.msg ELSE PrepareMsg(prepErr, cpu, volumePlan)
      \* line 131
      thenErr == IF thenRuns THEN msg.Error ELSE Nil
      rollbackRuns == TxnRollbackRuns(prepErr, thenErr, TRUE)
      \* line 136: the reservation is kept when the message has a container ID
      locked == rollbackRuns /\ ~KeepsReservation(msg)
      incrCalled == locked /\ env.lock # "lockfail"
      removeFailed == thenRuns /\ r.removeCalls = 1 /\ ~r.removed
  IN [ msg |-> msg,
       rep |-> [fail |-> env.fail,
                seq |-> IF thenRuns THEN r.seq ELSE NoSeq,
                created |-> IF thenRuns THEN r.created ELSE EmptyID,
                addCalls |-> IF thenRuns THEN r.addCalls ELSE 0,
                removeCalls |-> IF thenRuns THEN r.removeCalls ELSE 0,
                removeFailed |-> removeFailed,
                incrCalls |-> IF incrCalled THEN 1 ELSE 0,
                lock |-> IF locked THEN env.lock ELSE "none"],
       onEngine |-> thenRuns /\ r.created # EmptyID /\ ~r.removed,
       persisted |-> thenRuns /\ r.persisted,
       released |-> locked /\ env.lock = "ok",
       \* the calls that failed
       faults |-> (IF env.fail = "none" THEN 0 ELSE 1)
                  + (IF removeFailed THEN 1 ELSE 0)
                  + (IF locked /\ env.lock # "ok" THEN 1 ELSE 0),
       \* the answers that were asked for
       asked |-> /\ (~env.removeOK => removeFailed)
                 /\ (env.lock # "ok" => locked) ]

\* the body of the loop of line 104 for the next replica of node n
LaunchReplica(n) ==
  /\ gpc[n] = "prepare"
  /\ \E env \in ReplicaEnvs(opts) : \E l \in {LaunchOne(n, opts, gindex[n], li[n], env)} :
       LET i == li[n] IN
       /\ env.fail # "none" => MayFail(1)
       /\ l.asked
       /\ MayFail(l.faults)
       /\ faults' = faults + l.faults
       /\ ms' = [ms EXCEPT ![n][i + 1] = l.msg]
       /\ rep' = [rep EXCEPT ![n][i + 1] = l.rep]
       /\ engineCts' = IF l.onEngine THEN engineCts \cup {l.rep.created} ELSE engineCts
       /\ storeCts' = IF l.persisted THEN storeCts \cup {l.rep.created} ELSE storeCts
       /\ reserved' = [reserved EXCEPT ![n] = IF l.released THEN @ - 1 ELSE @]
       /\ li' = [li EXCEPT ![n] = i + 1]
       /\ gpc' = [gpc EXCEPT ![n] = LaunchLoopPc(n, i + 1, ms[n])]
  /\ UNCHANGED <<driverPc, index, spawned, wg, closeCount, panicked, gindex, si,
                 processing, procLog, deleteLog, received, sendLog, cancelled>>
  /\ UNCHANGED mainVars
  /\ UNCHANGED pureVars

\* ------------------------------- the per node goroutine of line 59
\* ch <- m (line 67): the channel has no buffer, so the send ends when the
\* caller receives; a send on a closed channel panics
SendMessage(n) ==
  /\ gpc[n] = "send"
  /\ IF closeCount > 0
     THEN /\ panicked' = TRUE
          /\ gpc' = [gpc EXCEPT ![n] = "panic"]
          /\ UNCHANGED <<received, sendLog>>
     ELSE /\ ~cancelled
          /\ received' = received + 1
          /\ sendLog' = [sendLog EXCEPT ![n] = Append(@, MessageAt(ms[n], si[n]))]
          /\ gpc' = [gpc EXCEPT ![n] = IF TxnThenRuns(Nil) THEN "update" ELSE "send"]
          /\ UNCHANGED panicked
  /\ UNCHANGED <<driverPc, index, spawned, wg, closeCount, gindex, li, si, ms, rep,
                 cancelled, faults>>
  /\ UNCHANGED mainVars
  /\ UNCHANGED pureVars
  /\ UNCHANGED storeVars

\* ProcessingValue of a count that is taken before the message i is counted
ProcessingValue_early(deploy, i) == deploy - i

\* the count given to UpdateProcessing after the send of message i (line 71)
ProcessingValue(deploy, i) == deploy - i - 1

\* the then of the transaction of line 64: UpdateProcessing(Deploy-i-1), its
\* error is logged (lines 70-76)
UpdateProcessing(n) ==
  /\ gpc[n] = "update"
  /\ \E ok \in BOOLEAN :
       LET i == si[n]
           value == ProcessingValue(nodesInfo[n], i)
       IN
       /\ ok \/ MayFail(1)
       /\ faults' = IF ok THEN faults ELSE faults + 1
       /\ procLog' = [procLog EXCEPT ![n] = Append(@, [value |-> value, ok |-> ok])]
       /\ processing' = [processing EXCEPT ![n] = IF ok THEN value ELSE @]
       /\ si' = [si EXCEPT ![n] = i + 1]
       /\ gpc' = [gpc EXCEPT ![n] = SendLoopPc(ms[n], i + 1)]
  /\ UNCHANGED <<driverPc, index, spawned, wg, closeCount, panicked, gindex, li, ms, rep,
                 deleteLog, reserved, engineCts, storeCts, received, sendLog, cancelled>>
  /\ UNCHANGED mainVars
  /\ UNCHANGED pureVars

\* the then of the transaction of line 60: DeleteProcessing, its error is
\* logged, and wg.Done() (lines 83-89)
DeleteProcessing(n) ==
  /\ gpc[n] = "delete"
  /\ TxnThenRuns(Nil)
  /\ \E ok \in BOOLEAN :
       /\ ok \/ MayFail(1)
       /\ faults' = IF ok THEN faults ELSE faults + 1
       /\ deleteLog' = [deleteLog EXCEPT ![n] = Append(@, ok)]
       /\ processing' = [processing EXCEPT ![n] = IF ok THEN Absent ELSE @]
  /\ wg' = wg - 1
  /\ gpc' = [gpc EXCEPT ![n] = "done"]
  /\ UNCHANGED <<driverPc, index, spawned, closeCount, panicked, gindex, li, si, ms, rep,
                 procLog, reserved, engineCts, storeCts, received, sendLog, cancelled>>
  /\ UNCHANGED mainVars
  /\ UNCHANGED pureVars

\* ------------------------------------------------------------ the caller
\* the caller cancels the context after the first message and stops receiving
CallerCancel ==
  /\ mainPc = "returned"
  /\ retErr = Nil
  /\ received = 1
  /\ ~cancelled
  /\ closeCount = 0
  /\ cancelled' = TRUE
  /\ UNCHANGED <<driverPc, index, spawned, wg, closeCount, panicked, gpc, gindex,
                 li, si, ms, rep, received, sendLog, faults>>
  /\ UNCHANGED mainVars
  /\ UNCHANGED pureVars
  /\ UNCHANGED storeVars

Step(n) ==
  \/ LaunchReplica(n)
  \/ SendMessage(n)
  \/ UpdateProcessing(n)
  \/ DeleteProcessing(n)

Next ==
  \/ CreateContainerInvalid
  \/ CreateContainerAllocFails
  \/ CreateContainerAllocated
  \/ DriverStart
  \/ DriverSpawn
  \/ DriverClose
  \/ \E n \in Nodes : LaunchReplica(n)
  \/ \E n \in Nodes : SendMessage(n)
  \/ \E n \in Nodes : UpdateProcessing(n)
  \/ \E n \in Nodes : DeleteProcessing(n)
  \/ CallerCancel

Spec == Init /\ [][Next]_vars

\* the goroutines are scheduled; the caller is free to cancel or not
Fairness ==
  /\ WF_vars(CreateContainerInvalid \/ CreateContainerAllocFails \/ CreateContainerAllocated)
  /\ WF_vars(DriverStart \/ DriverSpawn \/ DriverClose)
  /\ \A n \in 1 .. MaxNodes : WF_vars(n \in Nodes /\ Step(n))

FairSpec == Init /\ [][Next]_vars /\ Fairness

\* ------------------------------- doMakeContainerOptions: config.Labels
\* the keys cluster.ERUMark and cluster.LabelMeta
ERUMark == "ERU_MARK"
LabelMeta == "ERU_META"
LabelKeys == {ERUMark, LabelMeta, "user"}
\* a label value that is the string s
Literal(s) == <<s>>
UserLabelValues == {Literal("0"), Literal("1")}
PublishValues == {<<>>, <<"80">>}
HealthCheckValues == {"none", "tcp"}

\* utils.EncodeMetaInLabel: the encoding of the JSON of the LabelMeta, a value
\* no literal is equal to and that differs when the meta differs
EncodeMetaInLabel(meta) == <<"base64", "json", meta.Publish, meta.HealthCheck>>

\* the requests as far as the labels go: every choice of user labels over
\* LabelKeys with every Publish and HealthCheck
LabelRequests ==
  [Labels : UNION {[K -> UserLabelValues] : K \in SUBSET LabelKeys},
   Publish : PublishValues,
   HealthCheck : HealthCheckValues]

\* the map literal of lines 340-346
BasicLabels(o) ==
  [k \in {ERUMark, LabelMeta} |->
     IF k = ERUMark THEN Literal("1")
     ELSE EncodeMetaInLabel([Publish |-> o.Publish, HealthCheck |-> o.HealthCheck])]

\* config.Labels: the map literal, then the loop of lines 347-349 that assigns
\* every label of opts.Labels
MakeLabels(o) ==
  [k \in DOMAIN BasicLabels(o) \cup DOMAIN o.Labels |->
     IF k \in DOMAIN o.Labels THEN o.Labels[k] ELSE BasicLabels(o)[k]]

\* the pipeline is not part of this specification: no request is made
NoRequest == CHOOSE o \in Requests : o.Count = 0 /\ o.Memory = 0 /\ o.CPUQuota = 0

LabelInit ==
  /\ opts = NoRequest
  /\ PipelineIdle
  /\ pureCall = NotCalled
  /\ labelOpts \in LabelRequests
  /\ configLabels = EmptyMap
  /\ VolumeIdle

\* doMakeContainerOptions is called with the options labelOpts
DoMakeContainerOptions ==
  /\ pureCall = NotCalled
  /\ labelOpts \in LabelRequests
  /\ pureCall' = "doMakeContainerOptions"
  /\ configLabels' = MakeLabels(labelOpts)
  /\ UNCHANGED labelOpts
  /\ UNCHANGED volumeVars
  /\ UNCHANGED <<driverPc, index, spawned, wg, closeCount, panicked, gpc, gindex,
                 li, si, ms, rep, received, sendLog, cancelled, faults>>
  /\ UNCHANGED mainVars
  /\ UNCHANGED storeVars

LabelNext == DoMakeContainerOptions

LabelSpec == LabelInit /\ [][LabelNext]_vars

\* ------------------------------------------------ types/volume.go: strings
\* a string is the sequence of its bytes
\* "AUTO"
AUTO == <<65, 85, 84, 79>>
\* "/src"
HostSrc == <<47, 115, 114, 99>>
\* "/data"
DataDst == <<47, 100, 97, 116, 97>>
\* "rw"
FlagsRW == <<114, 119>>
\* "rwm"
FlagsRWM == <<114, 119, 109>>
\* "m"
FlagM == <<109>>
\* ":"
Colon == <<58>>

\* strings.HasSuffix
HasSuffix(s, suffix) ==
  /\ Len(s) >= Len(suffix)
  /\ SubSeq(s, Len(s) - Len(suffix) + 1, Len(s)) = suffix

\* strings.Contains
Contains(s, substr) ==
  \E k \in 1 .. Len(s) - Len(substr) + 1 : SubSeq(s, k, k + Len(substr) - 1) = substr

\* strings.ReplaceAll(s, old, "") for an old of one byte
RemoveAll(s, old) == SelectSeq(s, LAMBDA c : <<c>> # old)

\* strings.Split(s, sep) for a sep of one byte: the substrings between the separators
RECURSIVE Split(_, _)
Split(s, sep) ==
  IF \A k \in 1 .. Len(s) : <<s[k]>> # sep THEN <<s>>
  ELSE LET k == CHOOSE j \in 1 .. Len(s) :
                  <<s[j]>> = sep /\ \A h \in 1 .. j - 1 : <<s[h]>> # sep
       IN <<SubSeq(s, 1, k - 1)>> \o Split(SubSeq(s, k + 1, Len(s)), sep)

\* strings.Join(parts, sep)
RECURSIVE Join(_, _)
Join(parts, sep) ==
  IF parts = <<>> THEN <<>>
  ELSE IF Len(parts) = 1 THEN parts[1]
  ELSE parts[1] \o sep \o Join(Tail(parts), sep)

IsDigit(c) == c \in 48 .. 57

\* the number a string of digits stands for
RECURSIVE DigitsValue(_)
DigitsValue(s) ==
  IF s = <<>> THEN 0 ELSE 10 * DigitsValue(SubSeq(s, 1, Len(s) - 1)) + (s[Len(s)] - 48)

\* strconv.ParseInt(s, 10, 64): an optional sign, then one digit at least and
\* digits only (the numbers of the model are far from the ends of int64)
ParseInt(s) ==
  LET signed == s # <<>> /\ s[1] \in {43, 45}
      digits == IF signed THEN Tail(s) ELSE s
  IN IF digits = <<>> \/ \E k \in 1 .. Len(digits) : ~IsDigit(digits[k])
     THEN [value |-> 0, err |-> "ErrSyntax"]
     ELSE [value |-> IF s[1] = 45 THEN 0 - DigitsValue(digits) ELSE DigitsValue(digits),
           err |-> Nil]

\* fmt.Sprintf("%d", n)
RECURSIVE FormatNat(_)
FormatNat(n) ==
  IF n < 10 THEN <<48 + n>> ELSE FormatNat(n \div 10) \o <<48 + (n % 10)>>
FormatInt(n) == IF n < 0 THEN <<45>> \o FormatNat(0 - n) ELSE FormatNat(n)

\* a < b for strings: the order of the bytes
RECURSIVE StringLess(_, _)
StringLess(a, b) ==
  IF b = <<>> THEN FALSE
  ELSE IF a = <<>> THEN TRUE
  ELSE IF a[1] # b[1] THEN a[1] < b[1]
  ELSE StringLess(Tail(a), Tail(b))

\* ------------------------------------------- types/volume.go: VolumeBinding
RequireSchedule(vb) == HasSuffix(vb.Source, AUTO) /\ vb.Flags # <<>>

RequireMonopoly(vb) == HasSuffix(vb.Source, AUTO) /\ Contains(vb.Flags, FlagM)

\* VolumeBinding.Validate
ValidateBinding(vb) ==
  IF vb.Destination = <<>> THEN "ErrNoDest"
  ELSE IF RequireMonopoly(vb) /\ vb.SizeInBytes = 0 THEN "ErrNoSize"
  ELSE Nil

\* NewVolumeBinding: the binding and the error it returns (the binding is nil
\* when the parts cannot be read)
NewVolumeBinding(volumeString) ==
  LET parts == Split(volumeString, Colon)
      size == IF Len(parts) = 4 THEN ParseInt(parts[4]) ELSE [value |-> 0, err |-> Nil]
      vb == [Source |-> parts[1], Destination |-> parts[2],
             Flags |-> IF Len(parts) >= 3 THEN parts[3] ELSE <<>>,
             SizeInBytes |-> size.value]
  IN IF Len(parts) \notin {2, 3, 4} THEN [vb |-> NoBinding, err |-> "ErrInvalidVolume"]
     ELSE IF size.err # Nil THEN [vb |-> NoBinding, err |-> size.err]
     ELSE [vb |-> vb, err |-> ValidateBinding(vb)]

\* the parts the volume strings are made of
SourceParts == {AUTO, HostSrc}
DestinationParts == {<<>>, DataDst}
FlagsParts == {<<>>, FlagsRW, FlagsRWM}
\* "-1", "0", "1", "12", "x"
SizeParts == {<<45, 49>>, <<48>>, <<49>>, <<49, 50>>, <<120>>}

\* the volume strings: every choice of one to five parts joined by colons
VolumeStrings ==
  { Join(p, Colon) :
      p \in { <<s>> : s \in SourceParts }
        \cup { <<s, d>> : s \in SourceParts, d \in DestinationParts }
        \cup { <<s, d, f>> : s \in SourceParts, d \in DestinationParts, f \in FlagsParts }
        \cup { <<s, d, f, z>> : s \in SourceParts, d \in DestinationParts,
                                f \in FlagsParts, z \in SizeParts }
        \cup { <<s, d, f, z, z>> : s \in SourceParts, d \in {DataDst},
                                   f \in {FlagsRW}, z \in {<<49>>} } }

BindingInit ==
  /\ opts = NoRequest
  /\ PipelineIdle
  /\ pureCall = NotCalled
  /\ LabelIdle
  /\ volume \in VolumeStrings
  /\ newVB = [vb |-> NoBinding, err |-> Nil]
  /\ vbs = <<>>
  /\ vbs2 = <<>>
  /\ merged = [soft |-> <<>>, hard |-> <<>>]
  /\ operands = <<vbs, vbs2>>
  /\ returned = <<>>

\* NewVolumeBinding is called with the string volume
NewVolumeBindingCall ==
  /\ pureCall = NotCalled
  /\ pureCall' = "NewVolumeBinding"
  /\ newVB' = NewVolumeBinding(volume)
  /\ UNCHANGED <<volume, vbs, vbs2, merged, operands, returned>>
  /\ UNCHANGED labelVars
  /\ UNCHANGED <<driverPc, index, spawned, wg, closeCount, panicked, gpc, gindex,
                 li, si, ms, rep, received, sendLog, cancelled, faults>>
  /\ UNCHANGED mainVars
  /\ UNCHANGED storeVars

BindingNext == NewVolumeBindingCall

BindingSpec == BindingInit /\ [][BindingNext]_vars

\* ------------------------------------------ types/volume.go: VolumeBindings
\* VolumeBinding.ToString
BindingToString(vb, normalize) ==
  LET flags == IF normalize THEN RemoveAll(vb.Flags, FlagM) ELSE vb.Flags
  IN IF vb.Flags = <<>> /\ vb.SizeInBytes = 0
       THEN Join(<<vb.Source, vb.Destination>>, Colon)
     ELSE IF vb.SizeInBytes = 0
       THEN Join(<<vb.Source, vb.Destination, flags>>, Colon)
     ELSE Join(<<vb.Source, vb.Destination, flags, FormatInt(vb.SizeInBytes)>>, Colon)

\* the less function of the sort.Slice of line 110
BindingLess(x, y) == StringLess(BindingToString(x, FALSE), BindingToString(y, FALSE))

\* sort.Slice(vbs, less): the bindings in the order of less
RECURSIVE SortBindings(_)
SortBindings(s) ==
  IF s = <<>> THEN <<>>
  ELSE LET rest == SortBindings(Tail(s))
           k == Cardinality({j \in DOMAIN rest : BindingLess(rest[j], Head(s))})
       IN SubSeq(rest, 1, k) \o <<Head(s)>> \o SubSeq(rest, k + 1, Len(rest))

\* VolumeBindings.ToStringSlice: the strings it returns
ToStringSlice(s, sorted, normalize) ==
  LET v == IF sorted THEN SortBindings(s) ELSE s
  IN [k \in DOMAIN v |-> BindingToString(v[k], normalize)]

\* VolumeBindings.IsEqual: what it returns
IsEqual(a, b) == ToStringSlice(a, TRUE, FALSE) = ToStringSlice(b, TRUE, FALSE)

\* the key of line 167
MergeKey(vb) == <<vb.Source, vb.Destination, vb.Flags>>

\* AddSize of a map that keeps the first size of a key
AddSize_keepFirst(old, size) == old

\* sizeMap[key] += vb.SizeInBytes (line 169)
AddSize(old, size) == old + size

\* sizeMap after the loop of lines 162-173 over the bindings s: the keys are
\* the keys of the bindings that require a schedule
RECURSIVE SizeMap(_)
SizeMap(s) ==
  IF s = <<>> THEN EmptyMap
  ELSE LET before == SizeMap(SubSeq(s, 1, Len(s) - 1))
           vb == s[Len(s)]
           key == MergeKey(vb)
       IN IF ~RequireSchedule(vb) THEN before
          ELSE [k \in DOMAIN before \cup {key} |->
                  IF k # key THEN before[k]
                  ELSE IF key \in DOMAIN before THEN AddSize(before[key], vb.SizeInBytes)
                  ELSE vb.SizeInBytes]

\* the orders in which a range loop can go through the keys of a Go map
MapOrders(keys) ==
  { f \in [1 .. Cardinality(keys) -> keys] : \A i, j \in DOMAIN f : f[i] = f[j] => i = j }

\* VolumeBindings.Merge: what it can return, one result for every order of
\* the range loop of line 175
MergeOutcomes(a, b) ==
  LET all == a \o b
      sizeMap == SizeMap(all)
      kept == {key \in DOMAIN sizeMap : ~(sizeMap[key] < 0)}
  IN { [soft |-> [i \in DOMAIN f |->
                    [Source |-> f[i][1], Destination |-> f[i][2], Flags |-> f[i][3],
                     SizeInBytes |-> sizeMap[f[i]]]],
        hard |-> SelectSeq(all, LAMBDA vb : ~RequireSchedule(vb))] :
       f \in MapOrders(kept) }

\* the bindings the operands of Merge are made of
MergeBindings ==
  [Source : {AUTO, HostSrc}, Destination : {DataDst},
   Flags : {FlagsRW, FlagsRWM}, SizeInBytes : {-1, 1}]
    \cup {[Source |-> AUTO, Destination |-> DataDst, Flags |-> <<>>, SizeInBytes |-> 0]}

\* the pairs of operands with MaxVolumes bindings at most
MergeOperands ==
  UNION { [1 .. la -> MergeBindings] \X [1 .. lb -> MergeBindings] :
            <<la, lb>> \in {p \in (0 .. MaxVolumes) \X (0 .. MaxVolumes) : p[1] + p[2] <= MaxVolumes} }

VolumeInit ==
  /\ opts = NoRequest
  /\ PipelineIdle
  /\ pureCall = NotCalled
  /\ LabelIdle
  /\ volume = <<>>
  /\ newVB = [vb |-> NoBinding, err |-> Nil]
  /\ \E p \in MergeOperands : vbs = p[1] /\ vbs2 = p[2]
  /\ merged = [soft |-> <<>>, hard |-> <<>>]
  /\ operands = <<vbs, vbs2>>
  /\ returned = <<>>

\* vbs.Merge(vbs2) is called
MergeCall ==
  /\ pureCall = NotCalled
  /\ pureCall' = "Merge"
  /\ merged' \in MergeOutcomes(vbs, vbs2)
  /\ UNCHANGED <<volume, newVB, vbs, vbs2, operands, returned>>
  /\ UNCHANGED labelVars
  /\ UNCHANGED <<driverPc, index, spawned, wg, closeCount, panicked, gpc, gindex,
                 li, si, ms, rep, received, sendLog, cancelled, faults>>
  /\ UNCHANGED mainVars
  /\ UNCHANGED storeVars

\* vbs.ToStringSlice(sorted, normalize) is called: sort.Slice sorts the
\* array the receiver and the caller's slice share
ToStringSliceCall ==
  /\ pureCall = NotCalled
  /\ pureCall' = "ToStringSlice"
  /\ \E sorted, normalize \in BOOLEAN :
       /\ returned' = ToStringSlice(vbs, sorted, normalize)
       /\ vbs' = IF sorted THEN SortBindings(vbs) ELSE vbs
  /\ operands' = <<vbs, vbs2>>
  /\ UNCHANGED <<volume, newVB, vbs2, merged>>
  /\ UNCHANGED labelVars
  /\ UNCHANGED <<driverPc, index, spawned, wg, closeCount, panicked, gpc, gindex,
                 li, si, ms, rep, received, sendLog, cancelled, faults>>
  /\ UNCHANGED mainVars
  /\ UNCHANGED storeVars

\* vbs.IsEqual(vbs2) is called: the two calls of ToStringSlice(true, false)
\* sort the receiver and the argument
IsEqualCall ==
  /\ pureCall = NotCalled
  /\ pureCall' = "IsEqual"
  /\ returned' = IsEqual(vbs, vbs2)
  /\ vbs' = SortBindings(vbs)
  /\ vbs2' = SortBindings(vbs2)
  /\ operands' = <<vbs, vbs2>>
  /\ UNCHANGED <<volume, newVB, merged>>
  /\ UNCHANGED labelVars
  /\ UNCHANGED <<driverPc, index, spawned, wg, closeCount, panicked, gpc, gindex,
                 li, si, ms, rep, received, sendLog, cancelled, faults>>
  /\ UNCHANGED mainVars
  /\ UNCHANGED storeVars

VolumeNext ==
  \/ MergeCall
  \/ ToStringSliceCall
  \/ IsEqualCall

VolumeSpec == VolumeInit /\ [][VolumeNext]_vars

\* ================================================================ claims
Closed == closeCount > 0

\* number of messages node n has sent on the result channel
Sent(n) == si[n] + (IF gpc[n] = "update" THEN 1 ELSE 0)

\* number of replicas of node n whose launch, rollback included, is over
Finished(n) == li[n]

PostCreatePhases == {"inject", "start", "inspect", "persist"}
FailPhases == {"prepare", "create"} \cup PostCreatePhases

\* C1: when the result channel is closed, exactly sum(NodeInfo.Deploy)
\* messages have been sent, nodesInfo[n] of them by node n, whatever failed;
\* never more are sent.
C1_MessageCount ==
  /\ received <= SumSeq(nodesInfo)
  /\ \A n \in Nodes : Sent(n) <= nodesInfo[n]
  /\ Closed => /\ received = SumSeq(nodesInfo)
               /\ \A n \in Nodes : Sent(n) = nodesInfo[n]

\* two nodes, one replica that failed and one that did not, channel closed
C1_Witness ==
  /\ Closed
  /\ Len(nodesInfo) = 2
  /\ received = 2
  /\ \E n \in Nodes : \E i \in DOMAIN rep[n] : rep[n][i].fail \in FailPhases
  /\ \E n \in Nodes : \E i \in DOMAIN rep[n] : rep[n][i].fail = "none"

\* C2: the result channel is closed at most once, by the driver when it is
\* done; no goroutine sends on the closed channel, and at the close every per
\* node goroutine is past its last send.
C2_CloseAfterSends ==
  /\ closeCount <= 1
  /\ (driverPc = "done") = (closeCount = 1)
  /\ ~panicked
  /\ Closed => \A n \in Nodes : gpc[n] = "done" /\ Sent(n) = nodesInfo[n]

\* the channel is closed after two goroutines have sent one message each
C2_Witness ==
  /\ closeCount = 1
  /\ nodesInfo = <<1, 1>>
  /\ received = 2

\* C3 (as amended): DeleteProcessing is called at most once per NodeInfo, only
\* after the node's last message is sent, and has been called for every
\* NodeInfo when the channel is closed; the row of every NodeInfo whose
\* DeleteProcessing succeeded is then absent.
C3_DeleteProcessingBeforeClose ==
  /\ \A n \in Nodes : Len(deleteLog[n]) <= 1
  /\ \A n \in Nodes : Len(deleteLog[n]) = 1 => Sent(n) = nodesInfo[n] /\ gpc[n] = "done"
  /\ Closed => \A n \in Nodes :
                 /\ Len(deleteLog[n]) = 1
                 /\ deleteLog[n][1] => processing[n] = Absent

\* C3 as stated: at the close no processing-counter row of the request remains
C3_NoRowAtClose ==
  Closed => \A n \in Nodes : Len(deleteLog[n]) = 1 /\ processing[n] = Absent

\* closed after a failed replica and a failed UpdateProcessing, every
\* DeleteProcessing succeeded and no row remains
C3_Witness ==
  /\ Closed
  /\ \E n \in Nodes : \E i \in DOMAIN rep[n] : rep[n][i].fail \in FailPhases
  /\ \E n \in Nodes : \E k \in DOMAIN procLog[n] : ~procLog[n][k].ok
  /\ \A n \in Nodes : deleteLog[n] = <<TRUE>> /\ processing[n] = Absent

\* C4: every streamed message of a replica whose phases all succeeded has no
\* error and a container ID; every streamed message of a replica with a failed
\* phase whose removal did not fail has an error and no container ID; no
\* message has neither error nor container ID.
C4_MessageShape ==
  \A n \in Nodes : \A i \in 1 .. Sent(n) :
    LET m == ms[n][i]
        r == rep[n][i]
    IN /\ r.fail = "none" => m.Error = Nil /\ m.ContainerID # EmptyID
       /\ (r.fail \in FailPhases /\ ~r.removeFailed) => m.Error # Nil /\ m.ContainerID = EmptyID
       /\ ~(m.Error = Nil /\ m.ContainerID = EmptyID)

\* C5: when the channel is closed, on a node whose lock and store calls did not
\* fail, UpdateNodeResource(Incr) was called once for every replica that
\* failed and never for the others, and the node holds one reservation per
\* successful replica.
C5_ReleaseOncePerFailure ==
  Closed =>
    \A n \in Nodes :
      (\A i \in DOMAIN rep[n] : rep[n][i].lock \in {"none", "ok"}) =>
        /\ \A i \in DOMAIN rep[n] :
             rep[n][i].incrCalls = IF rep[n][i].fail = "none" THEN 0 ELSE 1
        /\ reserved[n] = Cardinality({i \in DOMAIN rep[n] : rep[n][i].fail = "none"})

\* C6: when the allocator fails, the returned channel is closed and has
\* yielded no message.
C6_AllocErrorClosedChannel ==
  (mainPc = "returned" /\ retErr = "ErrAlloc") =>
    /\ retCh = "ch"
    /\ Closed
    /\ received = 0

\* C7: Count <= 0 gives ErrBadCount, else Memory < 0 gives ErrBadMemory, else
\* CPUQuota < 0 gives ErrBadCPU, else no validation error; after a validation
\* error the allocator was not called, no goroutine runs, the store and the
\* engine are untouched and no message was produced.
ValidationErrors == {"ErrBadCount", "ErrBadMemory", "ErrBadCPU"}

C8_CleanupAfterCancel ==
  cancelled ~> (\A n \in Nodes : Len(deleteLog[n]) = 1)

\* C9: for every finished replica whose create succeeded and whose later phase
\* failed, the engine remove was called exactly once; and when the removal
\* does not fail, no container of a finished replica is on the node without
\* being persisted.
C9_RemoveAfterCreate ==
  \A n \in Nodes : \A i \in 1 .. Finished(n) :
    LET r == rep[n][i] IN
    /\ (r.created # EmptyID /\ r.fail \in PostCreatePhases) => r.removeCalls = 1
    /\ (r.created # EmptyID /\ ~r.removeFailed) =>
         (r.created \in engineCts => r.created \in storeCts)

\* C10: the streamed message of a replica that failed after create and whose
\* remove failed has the engine's container ID and an error.
C10_LeakedIDReported ==
  \A n \in Nodes : \A i \in 1 .. Sent(n) :
    LET m == ms[n][i]
        r == rep[n][i]
    IN (r.fail \in PostCreatePhases /\ r.removeCalls = 1 /\ r.removeFailed) =>
         /\ m.ContainerID = r.created
         /\ m.ContainerID # EmptyID
         /\ m.Error # Nil

\* C11: every streamed message, the message of a replica that failed in the
\* prepare phase included, carries the pod, quota, memory and storage of the
\* request, the name of its node and the CPU and volume plan of its replica.
C11_MessageFields ==
  \A n \in Nodes : \A i \in 1 .. Sent(n) :
    LET m == ms[n][i] IN
    /\ m.Podname = opts.Podname
    /\ m.Nodename = NodeName(n)
    /\ m.CPU = CPUPlan(n, i - 1)
    /\ m.Quota = opts.CPUQuota
    /\ m.Memory = opts.Memory
    /\ m.Storage = opts.Storage
    /\ m.VolumePlan = VolumePlans(n, i - 1)

\* C12 (as amended): a finished replica whose prepare phase failed has a
\* message with that error and no container ID, no container was created or
\* persisted for it, and the rollback of its transaction ran: the node lock
\* was asked for and, unless the lock failed, UpdateNodeResource(Incr) was
\* called once; when both succeeded the reservation is released.
C12_PrepareFailureReleases ==
  \A n \in Nodes :
    /\ \A i \in 1 .. Finished(n) :
         rep[n][i].fail = "prepare" =>
           /\ ms[n][i].Error = "ErrPrepare"
           /\ ms[n][i].ContainerID = EmptyID
           /\ rep[n][i].created = EmptyID
           /\ rep[n][i].addCalls = 0
           /\ rep[n][i].lock # "none"
           /\ rep[n][i].incrCalls = IF rep[n][i].lock = "lockfail" THEN 0 ELSE 1
    /\ (\A i \in 1 .. Finished(n) : rep[n][i].fail = "prepare" /\ rep[n][i].lock = "ok")
         => reserved[n] = nodesInfo[n] - Finished(n)

\* C12 as stated: after a failed prepare phase the message has that error and
\* no container ID, and UpdateNodeResource(Incr) is not called for the replica
C12_PrepareFailureNoRollback ==
  \A n \in Nodes : \A i \in 1 .. Finished(n) :
    rep[n][i].fail = "prepare" =>
      /\ ms[n][i].Error = "ErrPrepare"
      /\ ms[n][i].ContainerID = EmptyID
      /\ rep[n][i].incrCalls = 0

\* the message of a replica whose prepare phase failed was sent, its
\* reservation was released
C12_Witness ==
  \E n \in Nodes :
    /\ Sent(n) >= 1
    /\ rep[n][1].fail = "prepare"
    /\ rep[n][1].incrCalls = 1
    /\ rep[n][1].lock = "ok"
    /\ reserved[n] < nodesInfo[n]

\* C13: on every node the replicas are launched one at a time in index order:
\* at any time the launched replicas are the replicas 0 .. li-1, each of them
\* finished (message set, outcome known) and none of the later ones begun; the
\* messages the node has sent are its messages 0, 1, ... in this order, each
\* the message of a finished replica.
C13_IndexOrder ==
  \A n \in Nodes :
    /\ \A i \in DOMAIN rep[n] :
         /\ (rep[n][i].fail # "unset") = (i <= Finished(n))
         /\ ms[n][i].set = (i <= Finished(n))
         /\ i > Finished(n) => rep[n][i] = NoRep /\ ms[n][i] = NoMsg
    /\ Len(sendLog[n]) = Sent(n)
    /\ Sent(n) <= Finished(n)
    /\ \A k \in 1 .. Len(sendLog[n]) :
         /\ sendLog[n][k] = ms[n][k]
         /\ sendLog[n][k].set
         /\ sendLog[n][k].CPU = CPUPlan(n, k - 1)

\* a node with two replicas has sent its two messages, the first of a replica
\* that failed and was rolled back, the second of a replica that succeeded
C13_Witness ==
  \E n \in Nodes :
    /\ nodesInfo[n] = 2
    /\ Len(sendLog[n]) = 2
    /\ rep[n][1].fail \in FailPhases /\ rep[n][1].incrCalls = 1
    /\ rep[n][2].fail = "none"

\* the container IDs of the messages node n has sent
SentContainerIDs(n) == {sendLog[n][k].ContainerID : k \in 1 .. Len(sendLog[n])}

\* C14: the message of a finished replica has a container ID exactly when
\* store.AddContainer succeeded for its container, and this ID is then the ID
\* of the persisted record; store.AddContainer is called at most once and only
\* after create, inject data, start and inspect have succeeded; when the
\* channel is closed the container IDs of the streamed messages are the
\* container records in the store.
C14_ContainerIDIffPersisted ==
  /\ \A n \in Nodes : \A i \in 1 .. Finished(n) :
       LET m == ms[n][i]
           r == rep[n][i]
           addOK == r.addCalls = 1 /\ r.fail # "persist"
       IN /\ (m.ContainerID # EmptyID) = addOK
          /\ addOK => m.ContainerID = r.created /\ r.created \in storeCts
          /\ ~addOK => r.created \notin storeCts
          /\ r.addCalls <= 1
          /\ r.addCalls = 1 => r.fail \in {"none", "persist"} /\ r.created # EmptyID
  /\ Closed => UNION {SentContainerIDs(n) : n \in Nodes} \ {EmptyID} = storeCts

\* the channel is closed after a replica was persisted and the AddContainer
\* of another one failed
C14_Witness ==
  /\ Closed
  /\ Cardinality(storeCts) = 1
  /\ \E n \in Nodes : \E i \in DOMAIN rep[n] :
       rep[n][i].fail = "persist" /\ rep[n][i].addCalls = 1
  /\ \E n \in Nodes : \E k \in 1 .. Len(sendLog[n]) : sendLog[n][k].ContainerID \in storeCts

\* C15: the labels doMakeContainerOptions gives to the engine have the
\* mandatory values whatever the user labels are: the ERU mark is "1" and the
\* meta label is the encoding of {Publish, HealthCheck}.
C15_MandatoryLabels ==
  pureCall = "doMakeContainerOptions" =>
    /\ ERUMark \in DOMAIN configLabels
    /\ LabelMeta \in DOMAIN configLabels
    /\ configLabels[ERUMark] = Literal("1")
    /\ configLabels[LabelMeta] =
         EncodeMetaInLabel([Publish |-> labelOpts.Publish,
                            HealthCheck |-> labelOpts.HealthCheck])

\* C17: a binding NewVolumeBinding returns without error has a destination,
\* and a positive size when it requires a monopoly.
C17_BindingInvariant ==
  (pureCall = "NewVolumeBinding" /\ newVB.err = Nil) =>
    /\ newVB.vb.Destination # <<>>
    /\ RequireMonopoly(newVB.vb) => newVB.vb.SizeInBytes > 0

\* the bindings of the sequence s that require a schedule
Scheduled(s) == SelectSeq(s, RequireSchedule)

\* the sum of the sizes of the bindings of s with the key
RECURSIVE TotalSize(_, _)
TotalSize(s, key) ==
  IF s = <<>> THEN 0
  ELSE (IF MergeKey(Head(s)) = key THEN Head(s).SizeInBytes ELSE 0) + TotalSize(Tail(s), key)

\* number of times the binding vb is in the sequence s
Occurrences(s, vb) == Cardinality({k \in DOMAIN s : s[k] = vb})

\* C16: what a.Merge(b) returned is equal (IsEqual), soft volumes and hard
\* volumes, to everything b.Merge(a) can return; the soft volumes have one
\* binding for every key of the schedule-requiring bindings whose sizes sum to
\* 0 or more, with this sum as size, and none for the other keys; the hard
\* volumes are the other bindings of a and b, every one kept.
C16_MergeCommutes ==
  pureCall = "Merge" =>
    LET all == Scheduled(vbs \o vbs2)
        keys == {MergeKey(all[k]) : k \in DOMAIN all}
    IN /\ \A r \in MergeOutcomes(vbs2, vbs) :
            /\ IsEqual(merged.soft, r.soft)
            /\ IsEqual(merged.hard, r.hard)
       /\ \A key \in keys :
            Cardinality({k \in DOMAIN merged.soft : MergeKey(merged.soft[k]) = key})
              = IF TotalSize(all, key) < 0 THEN 0 ELSE 1
       /\ \A k \in DOMAIN merged.soft :
            /\ MergeKey(merged.soft[k]) \in keys
            /\ merged.soft[k].SizeInBytes = TotalSize(all, MergeKey(merged.soft[k]))
       /\ \A k \in DOMAIN merged.hard : ~RequireSchedule(merged.hard[k])
       /\ \A vb \in MergeBindings :
            ~RequireSchedule(vb) =>
              Occurrences(merged.hard, vb) = Occurrences(vbs, vb) + Occurrences(vbs2, vb)

\* a and b differ and share a key; one group is merged into one binding,
\* another group is dropped for its negative size, a hard binding is kept
C16_Witness ==
  /\ pureCall = "Merge"
  /\ vbs # vbs2 /\ vbs # <<>> /\ vbs2 # <<>>
  /\ \E i \in DOMAIN vbs : \E j \in DOMAIN vbs2 :
       RequireSchedule(vbs[i]) /\ MergeKey(vbs[i]) = MergeKey(vbs2[j])
  /\ Len(merged.soft) + Len(merged.hard) < Len(vbs) + Len(vbs2)

\* C18: once the driver goroutine is started, and unless the caller stops
\* receiving, the deployment ends: every per node goroutine is done, the wait
\* group is at zero and the result channel is closed.
C18_Terminates ==
  (driverPc = "start") ~>
    (cancelled \/ (Closed /\ wg = 0 /\ \A n \in Nodes : gpc[n] = "done"))

\* the deployment of two nodes ended with the channel closed, the caller
\* received everything, a DeleteProcessing and a launch had failed
C18_Witness ==
  /\ Closed /\ ~cancelled /\ wg = 0
  /\ Len(nodesInfo) = 2
  /\ received = SumSeq(nodesInfo)
  /\ \E n \in Nodes : deleteLog[n] = <<FALSE>>
  /\ \E n \in Nodes : \E i \in DOMAIN rep[n] : rep[n][i].fail \in FailPhases

\* C19: on every node the calls of UpdateProcessing so far have the values
\* Deploy-1, Deploy-2, ... in this order, none negative; call k comes after
\* the send of message k-1 and before the send of message k; whether the calls
\* failed or not, when DeleteProcessing is called, and so when the channel is
\* closed, every message was sent and UpdateProcessing was called Deploy times.
C19_UpdateProcessingCountdown ==
  \A n \in Nodes :
    /\ \A k \in 1 .. Len(procLog[n]) :
         /\ procLog[n][k].value = nodesInfo[n] - k
         /\ procLog[n][k].value >= 0
    /\ Len(procLog[n]) <= Len(sendLog[n])
    /\ Len(sendLog[n]) <= Len(procLog[n]) + 1
    /\ Len(procLog[n]) <= nodesInfo[n]
    /\ (Len(deleteLog[n]) = 1 \/ Closed) =>
         /\ Len(procLog[n]) = nodesInfo[n]
         /\ Len(sendLog[n]) = nodesInfo[n]
         /\ Len(deleteLog[n]) = 1

\* a node with two replicas: its first UpdateProcessing failed, the second
\* message was sent all the same, the second call had the value 0 and
\* DeleteProcessing was called
C19_Witness ==
  \E n \in Nodes :
    /\ nodesInfo[n] = 2
    /\ Len(procLog[n]) = 2
    /\ ~procLog[n][1].ok /\ procLog[n][1].value = 1
    /\ procLog[n][2].value = 0
    /\ Len(sendLog[n]) = 2
    /\ Len(deleteLog[n]) = 1
    /\ Closed

\* C20: on a node the engine create of replica j is not called while the
\* message of an earlier replica of the node has not been received.
C20_Backpressure ==
  \A n \in Nodes : \A j \in DOMAIN rep[n] :
    rep[n][j].fail \notin {"unset", "prepare"} => Len(sendLog[n]) >= j - 1

\* the sequence number of replica i (from 1) of node n: the deploy counts of
\* the NodeInfos before n, plus the index on the node
SeqOf(n, i) == SumSeq(SubSeq(nodesInfo, 1, n - 1)) + (i - 1)

\* the replicas of the plan
Replicas == {<<n, i>> \in Nodes \X (1 .. MaxCount) : i <= nodesInfo[n]}

\* C21: every started goroutine got the sum of the deploy counts of the
\* NodeInfos before its node as index; every replica doMakeContainerOptions
\* was called for got this index plus its index on the node as sequence
\* number; these numbers are pairwise distinct over the replicas of the plan
\* and are exactly 0 .. sum(Deploy)-1.
C21_SequenceNumbers ==
  /\ \A n \in Nodes : gpc[n] # "idle" => gindex[n] = SeqOf(n, 1)
  /\ \A n \in Nodes : \A i \in 1 .. Finished(n) :
       /\ rep[n][i].fail # "prepare" => rep[n][i].seq = SeqOf(n, i)
       /\ rep[n][i].fail = "prepare" => rep[n][i].seq = NoSeq
       /\ rep[n][i].created # EmptyID => rep[n][i].created = EngineID(SeqOf(n, i))
  /\ \A p, q \in Replicas : SeqOf(p[1], p[2]) = SeqOf(q[1], q[2]) => p = q
  /\ {SeqOf(p[1], p[2]) : p \in Replicas} = 0 .. SumSeq(nodesInfo) - 1

\* both nodes of a plan have launched their replica, the second node first,
\* and the replicas got the numbers 0 and 1
C21_Witness ==
  /\ nodesInfo = <<1, 1>>
  /\ Finished(1) = 1 /\ Finished(2) = 1
  /\ rep[1][1].seq = 0 /\ rep[2][1].seq = 1
  /\ Sent(2) = 1 /\ Sent(1) = 0

\* C22: UpdateNodeResource(Incr) is called for a replica only when no
\* container of the replica is left on the node: when the launch failed after
\* the create and the remove failed, the reservation is not released.
C22_NoReleaseWhileOnEngine ==
  \A n \in Nodes : \A i \in 1 .. Finished(n) :
    LET r == rep[n][i] IN
    /\ r.incrCalls = 1 => r.created \notin engineCts
    /\ (r.fail \in PostCreatePhases /\ r.removeFailed) => r.incrCalls = 0 /\ r.lock = "none"

\* C23: IsEqual and ToStringSlice leave the receiver and the argument as they
\* were at the call, so that ToStringSlice(false, false) of the receiver
\* returns afterwards what it would have returned before.
C23_OperandsUnchanged ==
  pureCall \in {"IsEqual", "ToStringSlice"} =>
    /\ vbs = operands[1]
    /\ vbs2 = operands[2]
    /\ ToStringSlice(vbs, FALSE, FALSE) = ToStringSlice(operands[1], FALSE, FALSE)
====
